---------------------------- MODULE Spec2Model ----------------------------
(***************************************************************************)
(* A model of daking::signal (include/signal.hpp): the copy-on-write slot  *)
(* store of every (emitter, signal type) pair, the connection handles, the *)
(* three emission protocols (broadcast, direct, capture) and the teardown  *)
(* of an emitter, which waits for its async_scope to drain.                *)
(*                                                                         *)
(* Every atomic access of the code (a load, store or compare-exchange of   *)
(* slots_, a load or store of enabled_, a weak_ptr lock, a spawn) is one   *)
(* step of the calling thread; thread-local work is merged into the atomic *)
(* access that follows it.  A shared_ptr is modelled by the value it       *)
(* points to, so a slot is alive exactly while some store, or some local   *)
(* of a thread in the middle of a call, still holds it.                    *)
(***************************************************************************)
EXTENDS Integers, Sequences, FiniteSets, Bags, TLC

(***************************************************************************)
(* Bounds of the model.                                                    *)
(***************************************************************************)
MaxSlots == 3
MaxCalls == 4
MaxCons == 2
MaxHash == 1
MaxNamed == 3
MaxBucket == 3

Threads == {1, 2}
Emitters == {1, 2}
SignalTypes == {1, 2}
Payloads == {1, 2}

\* Emitter 1 enables both signal types, emitter 2 the first one.
Stores == {<<1, 1>>, <<1, 2>>, <<2, 1>>}
SlotIds == 1 .. MaxSlots
NoStore == <<0, 0>>

VARIABLES
    slots_,     \* emitter_unit::slots_ of every store: the published snapshot
    enabled_,   \* slot_base::enabled_ of every slot
    nextSlot,   \* the next slot make_shared allocates
    home,       \* the store a slot was registered on (its handle's scope_ and Signal)
    state,      \* every emitter: "alive", "draining" (in ~emitter_scope) or "destroyed"
    scope,      \* emitter_scope::scope_ of every emitter: the bag of running tasks
    pc,         \* every thread: the place it is at in its call
    call,       \* every thread: the call it is in (or made last) and its arguments
    loc,        \* every thread: the locals of the call it is in
    sender,     \* every thread: the specific_emission_sender of its last emission
    ret,        \* every thread: what its last call returned
    log,        \* every thread: the spawns and flag stores of its current / last call
    pre,        \* every thread: enabled_ as it was when its emission started
    calls,      \* the number of calls started so far
    hist,       \* every store: the vectors published on it, in order (history)
    removals,   \* every slot: the disconnect calls that returned true (history)
    waited,     \* every emitter: a task completed while its destructor waited (history)
    gate        \* every slot: the enable / disable calls that returned true (history)

vars == <<slots_, enabled_, nextSlot, home, state, scope, pc, call, loc,
          sender, ret, log, pre, calls, hist, removals, waited, gate>>

\* The history variables: no action reads them.
ghost == <<hist, removals, waited, gate>>

(***************************************************************************)
(* Values.                                                                 *)
(***************************************************************************)
\* A std::shared_ptr<std::vector<slot>>: ver is the identity of the vector
\* (0: the null pointer, n: the n-th vector published on its store).
NullSnap == [ver |-> 0, vec |-> <<>>]

NoLoc == [slot |-> 0, snap |-> NullSnap, new |-> <<>>, i |-> 0, lost |-> FALSE]
NoCall == [op |-> "none", st |-> NoStore, cons |-> <<>>, args |-> 0]
NoRet == [done |-> FALSE, ok |-> FALSE, h |-> 0, lost |-> FALSE, ver |-> 0,
          raised |-> FALSE]
NoFuture == [st |-> "empty", slot |-> 0, args |-> 0, value |-> 0, rank |-> 0]
NoSender == [futures |-> <<>>, error |-> "none", awaited |-> "no"]

Range(s) == {s[i] : i \in 1 .. Len(s)}

\* The handler a slot wraps (closure_), and what it computes from the payload.
Closure(s) == s
Apply(c, a) == 10 * c + a

\* use_count() > 0: some published snapshot, or some local of a running call,
\* holds the slot.
Live(s) ==
    \/ \E st \in Stores : s \in Range(slots_[st].vec)
    \/ \E t \in Threads :
          \/ loc[t].slot = s
          \/ s \in Range(loc[t].snap.vec)
          \/ s \in Range(loc[t].new)

\* The handles of signal type ty that connect has returned so far.
Handles(ty) == {s \in 1 .. (nextSlot - 1) : home[s] # NoStore /\ home[s][2] = ty}

Init ==
    /\ slots_ = [st \in Stores |-> NullSnap]
    /\ enabled_ = [s \in SlotIds |-> TRUE]
    /\ nextSlot = 1
    /\ home = [s \in SlotIds |-> NoStore]
    /\ state = [e \in Emitters |-> "alive"]
    /\ scope = [e \in Emitters |-> EmptyBag]
    /\ pc = [t \in Threads |-> "idle"]
    /\ call = [t \in Threads |-> NoCall]
    /\ loc = [t \in Threads |-> NoLoc]
    /\ sender = [t \in Threads |-> NoSender]
    /\ ret = [t \in Threads |-> NoRet]
    /\ log = [t \in Threads |-> <<>>]
    /\ pre = [t \in Threads |-> [s \in SlotIds |-> TRUE]]
    /\ calls = 0
    /\ hist = [st \in Stores |-> <<>>]
    /\ removals = [s \in SlotIds |-> 0]
    /\ waited = [e \in Emitters |-> FALSE]
    /\ gate = [s \in SlotIds |-> <<>>]

(***************************************************************************)
(* Helpers shared by the calls.                                            *)
(***************************************************************************)
Task(s, a, fut) == [slot |-> s, args |-> a, fut |-> fut]
Detached == <<0, 0>>

\* A thread that starts a new call has let go of the sender of its last
\* emission: the tasks of that sender stay in their scopes, with no future left
\* to deliver to.
Orphan(b, t) ==
    BagOfAll(LAMBDA x : IF x.fut[1] = t THEN [x EXCEPT !.fut = Detached] ELSE x, b)

\* The start of a call by an idle thread.
Begin(t, c) ==
    /\ pc[t] = "idle"
    /\ calls < MaxCalls
    /\ calls' = calls + 1
    /\ call' = [call EXCEPT ![t] = c]

DropSender(t) ==
    scope' = [e \in Emitters |-> Orphan(scope[e], t)]

\* The return of a call whose locals are l: ok and h are what it returns; lost
\* (another thread published on the store during the call) and ver (the vector
\* the call last loaded) are kept for the properties.
FinishWith(t, ok, h, l) ==
    /\ pc' = [pc EXCEPT ![t] = "idle"]
    /\ loc' = [loc EXCEPT ![t] = NoLoc]
    /\ ret' = [ret EXCEPT ![t] = [done |-> TRUE, ok |-> ok, h |-> h,
                                  lost |-> l.lost, ver |-> l.snap.ver,
                                  raised |-> FALSE]]

\* The call ends with an exception that leaves it.
Raise(t) ==
    /\ pc' = [pc EXCEPT ![t] = "idle"]
    /\ loc' = [loc EXCEPT ![t] = NoLoc]
    /\ ret' = [ret EXCEPT ![t] = [NoRet EXCEPT !.done = TRUE, !.raised = TRUE]]

Finish(t, ok, h) == FinishWith(t, ok, h, loc[t])

\* The call goes on at place p with locals l.
Goto(t, p, l) ==
    /\ pc' = [pc EXCEPT ![t] = p]
    /\ loc' = [loc EXCEPT ![t] = l]
    /\ ret' = [ret EXCEPT ![t] = NoRet]

\* std::make_shared<std::vector<slot>>(*old_slots), or an empty vector when
\* old_slots is null.
Clone(old) == IF old.ver # 0 THEN old.vec ELSE <<>>

\* Mutant: a compare-exchange that never succeeds.
CasNever(current, expected) == FALSE

\* Mutant: a plain store in place of the compare-exchange.
CasBlind(current, expected) == TRUE

\* std::atomic<std::shared_ptr>::compare_exchange_weak compares the pointers.
CasMatches(current, expected) == current.ver = expected.ver

\* Mutant: the published vector is changed in place.
PublishInPlace(current, new) == [ver |-> current.ver, vec |-> new]

\* The vector a successful compare-exchange installs.
Publish(current, new) == [ver |-> current.ver + 1, vec |-> new]

\* Mutant: erase without the test for end(): the last element goes when ptr is
\* not in the vector.
RemoveSlotOrLast(vec, ptr) ==
    LET kept == SelectSeq(vec, LAMBDA x : x # ptr)
    IN  IF Len(kept) = Len(vec) THEN SubSeq(vec, 1, Len(vec) - 1) ELSE kept

\* Mutant: the last element is moved to the place of ptr and the vector is
\* shortened by one.
RemoveSlotSwap(vec, ptr) ==
    IF ptr \in Range(vec)
      THEN LET at == CHOOSE i \in 1 .. Len(vec) : vec[i] = ptr
               last == vec[Len(vec)]
           IN  [i \in 1 .. (Len(vec) - 1) |-> IF i = at THEN last ELSE vec[i]]
      ELSE vec

\* Mutant: the element at the front goes in place of ptr.
RemoveSlotFront(vec, ptr) ==
    IF ptr \in Range(vec) THEN Tail(vec) ELSE vec

\* std::remove(begin, end, ptr) followed by erase(it): the elements other than
\* ptr keep their order; erase(it) erases the one element at it.
RemoveSlot(vec, ptr) ==
    LET kept == SelectSeq(vec, LAMBDA x : x # ptr)
    IN  IF Len(kept) = Len(vec) THEN vec
        ELSE kept \o SubSeq(vec, Len(kept) + 2, Len(vec))

(***************************************************************************)
(* connect: connect_t::Impl and emitter_unit::Register.                    *)
(***************************************************************************)
StartConnect(t) ==
    \E st \in Stores :
        /\ state[st[1]] = "alive"
        /\ nextSlot <= MaxSlots
        /\ Begin(t, [NoCall EXCEPT !.op = "connect", !.st = st])
        /\ DropSender(t)
        /\ nextSlot' = nextSlot + 1
        /\ Goto(t, "reg_cas", [NoLoc EXCEPT !.slot = nextSlot, !.snap = slots_[st]])
        /\ sender' = [sender EXCEPT ![t] = NoSender]
        /\ log' = [log EXCEPT ![t] = <<>>]
        /\ UNCHANGED <<slots_, enabled_, home, state, pre, ghost>>

\* Mutant: the signal types of an emitter share one slots_.
RegisterCasShared(t) ==
    /\ pc[t] = "reg_cas"
    /\ LET st == call[t].st
           old == loc[t].snap
           new == Append(Clone(old), loc[t].slot)
       IN  \/ /\ CasMatches(slots_[st], old)
              /\ slots_' = [o \in Stores |->
                               IF o[1] = st[1] THEN Publish(slots_[st], new) ELSE slots_[o]]
              /\ hist' = [hist EXCEPT ![st] = Append(@, new)]
              /\ home' = [home EXCEPT ![loc[t].slot] = st]
              /\ Finish(t, TRUE, loc[t].slot)
           \/ /\ loc' = [loc EXCEPT ![t].snap = slots_[st], ![t].new = new,
                                    ![t].lost = @ \/ ~CasMatches(slots_[st], old)]
              /\ UNCHANGED <<slots_, home, pc, ret, hist>>
    /\ UNCHANGED <<enabled_, nextSlot, state, scope, call, sender, log, pre, calls,
                   removals, waited, gate>>

\* Mutant: a slot is connected disabled, and waits for its first enable().
RegisterCasDisabled(t) ==
    /\ pc[t] = "reg_cas"
    /\ LET st == call[t].st
           old == loc[t].snap
           new == Append(Clone(old), loc[t].slot)
       IN  \/ /\ CasMatches(slots_[st], old)
              /\ slots_' = [slots_ EXCEPT ![st] = Publish(@, new)]
              /\ hist' = [hist EXCEPT ![st] = Append(@, new)]
              /\ home' = [home EXCEPT ![loc[t].slot] = st]
              /\ enabled_' = [enabled_ EXCEPT ![loc[t].slot] = FALSE]
              /\ Finish(t, TRUE, loc[t].slot)
           \/ /\ loc' = [loc EXCEPT ![t].snap = slots_[st], ![t].new = new,
                                    ![t].lost = @ \/ ~CasMatches(slots_[st], old)]
              /\ UNCHANGED <<slots_, home, pc, ret, hist, enabled_>>
    /\ UNCHANGED <<nextSlot, state, scope, call, sender, log, pre, calls,
                   removals, waited, gate>>

RegisterCas(t) ==
    /\ pc[t] = "reg_cas"
    /\ LET st == call[t].st
           old == loc[t].snap
           new == Append(Clone(old), loc[t].slot)
       IN  \/ /\ CasMatches(slots_[st], old)
              /\ slots_' = [slots_ EXCEPT ![st] = Publish(@, new)]
              /\ hist' = [hist EXCEPT ![st] = Append(@, new)]
              /\ home' = [home EXCEPT ![loc[t].slot] = st]
              /\ Finish(t, TRUE, loc[t].slot)
           \/ /\ loc' = [loc EXCEPT ![t].snap = slots_[st], ![t].new = new,
                                    ![t].lost = @ \/ ~CasMatches(slots_[st], old)]
              /\ UNCHANGED <<slots_, home, pc, ret, hist>>
    /\ UNCHANGED <<enabled_, nextSlot, state, scope, call, sender, log, pre, calls,
                   removals, waited, gate>>

(***************************************************************************)
(* disconnect: disconnect_t::Impl and emitter_unit::Unregister.            *)
(***************************************************************************)
StartDisconnect(t) ==
    \E st \in Stores : \E h \in Handles(st[2]) :
        /\ state[st[1]] = "alive"
        /\ Begin(t, [NoCall EXCEPT !.op = "disconnect", !.st = st, !.cons = <<h>>])
        /\ DropSender(t)
        /\ IF Live(h)
             THEN Goto(t, "unreg_load", [NoLoc EXCEPT !.slot = h])
             ELSE Finish(t, FALSE, 0)
        /\ sender' = [sender EXCEPT ![t] = NoSender]
        /\ log' = [log EXCEPT ![t] = <<>>]
        /\ UNCHANGED <<slots_, enabled_, nextSlot, home, state, pre, ghost>>

UnregisterLoad(t) ==
    /\ pc[t] = "unreg_load"
    /\ pc' = [pc EXCEPT ![t] = "unreg_cas"]
    /\ loc' = [loc EXCEPT ![t].snap = slots_[call[t].st]]
    /\ UNCHANGED <<slots_, enabled_, nextSlot, home, state, scope, call,
                   sender, ret, log, pre, calls, ghost>>

\* Mutant: a disconnect that succeeds cancels the running tasks of its slot.
UnregisterCasCancels(t) ==
    /\ pc[t] = "unreg_cas"
    /\ LET st == call[t].st
           old == loc[t].snap
           new == RemoveSlot(Clone(old), loc[t].slot)
       IN  IF Len(new) = Len(Clone(old))
             THEN /\ Finish(t, FALSE, 0)
                  /\ UNCHANGED <<slots_, hist, removals, scope>>
             ELSE \/ /\ CasMatches(slots_[st], old)
                     /\ slots_' = [slots_ EXCEPT ![st] = Publish(@, new)]
                     /\ hist' = [hist EXCEPT ![st] = Append(@, new)]
                     /\ removals' = [removals EXCEPT ![loc[t].slot] = @ + 1]
                     /\ scope' = [e \in Emitters |->
                                     [x \in {y \in BagToSet(scope[e]) : y.slot # loc[t].slot}
                                         |-> scope[e][x]]]
                     /\ Finish(t, TRUE, 0)
                  \/ /\ loc' = [loc EXCEPT ![t].snap = slots_[st], ![t].new = new,
                                           ![t].lost = @ \/ ~CasMatches(slots_[st], old)]
                     /\ UNCHANGED <<slots_, pc, ret, hist, removals, scope>>
    /\ UNCHANGED <<enabled_, nextSlot, home, state, call, sender, log, pre,
                   calls, waited, gate>>

UnregisterCas(t) ==
    /\ pc[t] = "unreg_cas"
    /\ LET st == call[t].st
           old == loc[t].snap
           new == RemoveSlot(Clone(old), loc[t].slot)
       IN  IF Len(new) = Len(Clone(old))
             THEN /\ Finish(t, FALSE, 0)
                  /\ UNCHANGED <<slots_, hist, removals>>
             ELSE \/ /\ CasMatches(slots_[st], old)
                     /\ slots_' = [slots_ EXCEPT ![st] = Publish(@, new)]
                     /\ hist' = [hist EXCEPT ![st] = Append(@, new)]
                     /\ removals' = [removals EXCEPT ![loc[t].slot] = @ + 1]
                     /\ Finish(t, TRUE, 0)
                  \/ /\ loc' = [loc EXCEPT ![t].snap = slots_[st], ![t].new = new,
                                           ![t].lost = @ \/ ~CasMatches(slots_[st], old)]
                     /\ UNCHANGED <<slots_, pc, ret, hist, removals>>
    /\ UNCHANGED <<enabled_, nextSlot, home, state, scope, call, sender, log, pre,
                   calls, waited, gate>>

(***************************************************************************)
(* connection_signatures::enable and disable.  The weak_ptr lock and the   *)
(* store of the flag are one step: the lock only keeps the slot alive for  *)
(* the store that follows it.                                              *)
(***************************************************************************)
\* Mutant: the flag is one for all slots.
SetEnabledEvery(t) ==
    \E ty \in SignalTypes : \E h \in Handles(ty) : \E v \in BOOLEAN :
        /\ Begin(t, [NoCall EXCEPT !.op = IF v THEN "enable" ELSE "disable",
                                   !.cons = <<h>>])
        /\ DropSender(t)
        /\ IF Live(h)
             THEN /\ enabled_' = [s \in SlotIds |-> v]
                  /\ gate' = [gate EXCEPT ![h] = Append(@, call'[t].op)]
                  /\ Finish(t, TRUE, 0)
             ELSE /\ UNCHANGED <<enabled_, gate>>
                  /\ Finish(t, FALSE, 0)
        /\ sender' = [sender EXCEPT ![t] = NoSender]
        /\ log' = [log EXCEPT ![t] = <<>>]
        /\ UNCHANGED <<slots_, nextSlot, home, state, pre, hist, removals, waited>>

\* Mutant: the flag is stored through the handle without the test of the lock.
SetEnabledUnlocked(t) ==
    \E ty \in SignalTypes : \E h \in Handles(ty) : \E v \in BOOLEAN :
        /\ Begin(t, [NoCall EXCEPT !.op = IF v THEN "enable" ELSE "disable",
                                   !.cons = <<h>>])
        /\ DropSender(t)
        /\ enabled_' = [enabled_ EXCEPT ![h] = v]
        /\ gate' = [gate EXCEPT ![h] = Append(@, call'[t].op)]
        /\ Finish(t, TRUE, 0)
        /\ sender' = [sender EXCEPT ![t] = NoSender]
        /\ log' = [log EXCEPT ![t] = <<>>]
        /\ UNCHANGED <<slots_, nextSlot, home, state, pre, hist, removals, waited>>

SetEnabled(t) ==
    \E ty \in SignalTypes : \E h \in Handles(ty) : \E v \in BOOLEAN :
        /\ Begin(t, [NoCall EXCEPT !.op = IF v THEN "enable" ELSE "disable",
                                   !.cons = <<h>>])
        /\ DropSender(t)
        /\ IF Live(h)
             THEN /\ enabled_' = [enabled_ EXCEPT ![h] = v]
                  /\ gate' = [gate EXCEPT ![h] = Append(@, call'[t].op)]
                  /\ Finish(t, TRUE, 0)
             ELSE /\ UNCHANGED <<enabled_, gate>>
                  /\ Finish(t, FALSE, 0)
        /\ sender' = [sender EXCEPT ![t] = NoSender]
        /\ log' = [log EXCEPT ![t] = <<>>]
        /\ UNCHANGED <<slots_, nextSlot, home, state, pre, hist, removals, waited>>

(***************************************************************************)
(* slot_impl::Invoke: the flag is loaded (acquire) and, if set, the task   *)
(* is spawned into the scope: spawn_future when a sender position is       *)
(* given, spawn otherwise.                                                 *)
(***************************************************************************)
\* Mutant: Invoke without the test of the flag.
SpawnsAlways(s) == TRUE

Spawns(s) == enabled_[s]

\* Mutant: with a sender position given, nothing is spawned before the sender
\* is awaited.
InvokeDeferred(t, s, e, fut, a) ==
    IF Spawns(s) /\ fut = Detached
      THEN /\ scope' = [scope EXCEPT ![e] = @ (+) SetToBag({Task(s, a, fut)})]
           /\ log' = [log EXCEPT ![t] = Append(@, [slot |-> s, via |-> "broadcast"])]
      ELSE UNCHANGED <<scope, log>>

Invoke(t, s, e, fut, a) ==
    IF Spawns(s)
      THEN /\ scope' = [scope EXCEPT ![e] = @ (+) SetToBag({Task(s, a, fut)})]
           /\ log' = [log EXCEPT ![t] = Append(@,
                         [slot |-> s,
                          via |-> IF fut = Detached THEN "broadcast" ELSE "tracked"])]
      ELSE UNCHANGED <<scope, log>>

(***************************************************************************)
(* emit(signal, broadcast, emitter): emit_t::Broadcast and                 *)
(* emitter_unit::Broadcast.  The same loop is the broadcast of a capture.  *)
(***************************************************************************)
\* Mutant: Broadcast turns a null snapshot down as Check does.
StartBroadcastChecked(t) ==
    \E st \in Stores : \E a \in Payloads :
        /\ state[st[1]] = "alive"
        /\ Begin(t, [NoCall EXCEPT !.op = "broadcast", !.st = st, !.args = a])
        /\ DropSender(t)
        /\ IF slots_[st].ver = 0
             THEN Raise(t)
             ELSE IF Len(slots_[st].vec) = 0
                    THEN FinishWith(t, TRUE, 0, [NoLoc EXCEPT !.snap = slots_[st]])
                    ELSE Goto(t, "bc_loop", [NoLoc EXCEPT !.snap = slots_[st], !.i = 1])
        /\ sender' = [sender EXCEPT ![t] = NoSender]
        /\ log' = [log EXCEPT ![t] = <<>>]
        /\ UNCHANGED <<slots_, enabled_, nextSlot, home, state, pre, ghost>>

StartBroadcast(t) ==
    \E st \in Stores : \E a \in Payloads :
        /\ state[st[1]] = "alive"
        /\ Begin(t, [NoCall EXCEPT !.op = "broadcast", !.st = st, !.args = a])
        /\ DropSender(t)
        /\ IF Len(slots_[st].vec) = 0
             THEN FinishWith(t, TRUE, 0, [NoLoc EXCEPT !.snap = slots_[st]])
             ELSE Goto(t, "bc_loop", [NoLoc EXCEPT !.snap = slots_[st], !.i = 1])
        /\ sender' = [sender EXCEPT ![t] = NoSender]
        /\ log' = [log EXCEPT ![t] = <<>>]
        /\ UNCHANGED <<slots_, enabled_, nextSlot, home, state, pre, ghost>>

\* Mutant: the loop runs over the vector slots_ holds now, not the one loaded.
CurrentReloaded(t) ==
    IF loc[t].i <= Len(slots_[call[t].st].vec)
      THEN slots_[call[t].st].vec
      ELSE loc[t].snap.vec

\* for (auto& slot_ptr : *current_slots): the vector the loop runs over.
Current(t) == loc[t].snap.vec

\* Mutant: the loop holds a lock that the writers of the store hold in their
\* publish loop.
BroadcastStepLocked(t) ==
    /\ pc[t] = "bc_loop"
    /\ \A u \in Threads \ {t} :
          ~(pc[u] \in {"reg_cas", "unreg_cas"} /\ call[u].st = call[t].st)
    /\ LET i == loc[t].i
           vec == Current(t)
           l == [loc[t] EXCEPT !.lost = @ \/ slots_[call[t].st].ver # loc[t].snap.ver]
       IN  /\ Invoke(t, vec[i], call[t].st[1], Detached, call[t].args)
           /\ IF i < Len(vec)
                THEN /\ loc' = [loc EXCEPT ![t] = [l EXCEPT !.i = i + 1]]
                     /\ UNCHANGED <<pc, ret>>
                ELSE FinishWith(t, TRUE, 0, l)
    /\ UNCHANGED <<slots_, enabled_, nextSlot, home, state, call, sender, pre, calls,
                   ghost>>

BroadcastStep(t) ==
    /\ pc[t] = "bc_loop"
    /\ LET i == loc[t].i
           vec == Current(t)
           l == [loc[t] EXCEPT !.lost = @ \/ slots_[call[t].st].ver # loc[t].snap.ver]
       IN  /\ Invoke(t, vec[i], call[t].st[1], Detached, call[t].args)
           /\ IF i < Len(vec)
                THEN /\ loc' = [loc EXCEPT ![t] = [l EXCEPT !.i = i + 1]]
                     /\ UNCHANGED <<pc, ret>>
                ELSE IF call[t].op = "capture"
                       THEN /\ pc' = [pc EXCEPT ![t] = "cap_enable"]
                            /\ loc' = [loc EXCEPT ![t] = [NoLoc EXCEPT !.i = 1]]
                            /\ UNCHANGED ret
                       ELSE FinishWith(t, TRUE, 0, l)
    /\ UNCHANGED <<slots_, enabled_, nextSlot, home, state, call, sender, pre, calls,
                   ghost>>

(***************************************************************************)
(* emit(signal, con...): emit_t::EmitConnection.  get_future runs for the  *)
(* handles in argument order.                                              *)
(***************************************************************************)
\* The sequences of handles of one signal type an emission can name.
ConsSeqs(ty) == UNION {[1 .. n -> Handles(ty)] : n \in 1 .. MaxCons}

\* Mutant: the last error is kept.
Emplace_errorLast(snd, e) == [snd EXCEPT !.error = e]

\* Mutant: the error is not kept.
Emplace_errorDropped(snd, e) == snd

\* specific_emission_sender::Emplace_error keeps the first error.
Emplace_error(snd, e) == IF snd.error = "none" THEN [snd EXCEPT !.error = e] ELSE snd

\* Mutant: the positions are filled in from the back.
AtReversed(i, n) == n + 1 - i

\* sender.At<I>(): the position of the I-th of n connections in futures_.
At(i, n) == i

NewSender(n) ==
    [futures |-> [i \in 1 .. n |-> NoFuture], error |-> "none", awaited |-> "no"]

\* What follows get_future of handle i: the next handle, or the end of
\* EmitConnection, where a direct emission returns the sender and a capture
\* goes on to disable its connections.
AfterFuture(t, snd) ==
    IF loc[t].i < Len(call[t].cons)
      THEN /\ pc' = [pc EXCEPT ![t] = "em_lock"]
           /\ loc' = [loc EXCEPT ![t] = [NoLoc EXCEPT !.i = loc[t].i + 1]]
           /\ UNCHANGED ret
      ELSE IF call[t].op = "capture"
             THEN /\ pc' = [pc EXCEPT ![t] = "cap_disable"]
                  /\ loc' = [loc EXCEPT ![t] = [NoLoc EXCEPT !.i = 1]]
                  /\ UNCHANGED ret
             ELSE Finish(t, snd.error = "none", 0)

StartDirect(t) ==
    \E ty \in SignalTypes : \E cons \in ConsSeqs(ty) : \E a \in Payloads :
        /\ Begin(t, [NoCall EXCEPT !.op = "direct", !.cons = cons, !.args = a])
        /\ DropSender(t)
        /\ Goto(t, "em_lock", [NoLoc EXCEPT !.i = 1])
        /\ sender' = [sender EXCEPT ![t] = NewSender(Len(cons))]
        /\ log' = [log EXCEPT ![t] = <<>>]
        /\ pre' = [pre EXCEPT ![t] = enabled_]
        /\ UNCHANGED <<slots_, enabled_, nextSlot, home, state, ghost>>

\* Mutant: get_future leaves the test of the flag to Invoke.
EmitLockNoFlag(t) ==
    /\ pc[t] = "em_lock"
    /\ LET h == call[t].cons[loc[t].i]
       IN  IF Live(h)
             THEN /\ pc' = [pc EXCEPT ![t] = "em_invoke"]
                  /\ loc' = [loc EXCEPT ![t].slot = h]
                  /\ UNCHANGED <<sender, ret>>
             ELSE /\ sender' = [sender EXCEPT ![t] = Emplace_error(@, "closed")]
                  /\ AfterFuture(t, sender'[t])
    /\ UNCHANGED <<slots_, enabled_, nextSlot, home, state, scope, call, log, pre,
                   calls, ghost>>

\* Mutant: get_future turns down a handle the emission has named before.
EmitLockOnce(t) ==
    /\ pc[t] = "em_lock"
    /\ LET h == call[t].cons[loc[t].i]
       IN  IF \E j \in 1 .. (loc[t].i - 1) : call[t].cons[j] = h
             THEN /\ sender' = [sender EXCEPT ![t] = Emplace_error(@, "foreign")]
                  /\ AfterFuture(t, sender'[t])
             ELSE IF Live(h)
                    THEN IF enabled_[h]
                           THEN /\ pc' = [pc EXCEPT ![t] = "em_invoke"]
                                /\ loc' = [loc EXCEPT ![t].slot = h]
                                /\ UNCHANGED <<sender, ret>>
                           ELSE /\ sender' = [sender EXCEPT ![t] =
                                                 Emplace_error(@, "disabled")]
                                /\ AfterFuture(t, sender'[t])
                    ELSE /\ sender' = [sender EXCEPT ![t] = Emplace_error(@, "closed")]
                         /\ AfterFuture(t, sender'[t])
    /\ UNCHANGED <<slots_, enabled_, nextSlot, home, state, scope, call, log, pre,
                   calls, ghost>>

\* get_future: con.ptr_.lock() and the load of enabled_.
EmitLock(t) ==
    /\ pc[t] = "em_lock"
    /\ LET h == call[t].cons[loc[t].i]
       IN  IF Live(h)
             THEN IF enabled_[h]
                    THEN /\ pc' = [pc EXCEPT ![t] = "em_invoke"]
                         /\ loc' = [loc EXCEPT ![t].slot = h]
                         /\ UNCHANGED <<sender, ret>>
                    ELSE /\ sender' = [sender EXCEPT ![t] = Emplace_error(@, "disabled")]
                         /\ AfterFuture(t, sender'[t])
             ELSE /\ sender' = [sender EXCEPT ![t] = Emplace_error(@, "closed")]
                  /\ AfterFuture(t, sender'[t])
    /\ UNCHANGED <<slots_, enabled_, nextSlot, home, state, scope, call, log, pre,
                   calls, ghost>>

\* Mutant: every task of the emission goes into the scope of its first handle.
EmitInvokeFirstScope(t) ==
    /\ pc[t] = "em_invoke"
    /\ LET i == loc[t].i
           s == loc[t].slot
           a == call[t].args
           n == Len(call[t].cons)
       IN  /\ Invoke(t, s, home[call[t].cons[1]][1], <<t, At(i, n)>>, a)
           /\ sender' = IF Spawns(s)
                          THEN [sender EXCEPT ![t].futures[At(i, n)] =
                                   [NoFuture EXCEPT !.st = "running", !.slot = s, !.args = a]]
                          ELSE sender
           /\ AfterFuture(t, sender[t])
    /\ UNCHANGED <<slots_, enabled_, nextSlot, home, state, call, pre, calls, ghost>>

\* get_future: slot->Invoke(con.scope_, sender.At<I>(), args...).
EmitInvoke(t) ==
    /\ pc[t] = "em_invoke"
    /\ LET i == loc[t].i
           s == loc[t].slot
           a == call[t].args
           n == Len(call[t].cons)
       IN  /\ Invoke(t, s, home[s][1], <<t, At(i, n)>>, a)
           /\ sender' = IF Spawns(s)
                          THEN [sender EXCEPT ![t].futures[At(i, n)] =
                                   [NoFuture EXCEPT !.st = "running", !.slot = s, !.args = a]]
                          ELSE sender
           /\ AfterFuture(t, sender[t])
    /\ UNCHANGED <<slots_, enabled_, nextSlot, home, state, call, pre, calls, ghost>>

(***************************************************************************)
(* emitter_unit::Check: the membership and uniqueness validation of a      *)
(* capture, with its open-addressing table.                                *)
(***************************************************************************)
RECURSIVE BitOr(_, _)
BitOr(a, b) ==
    IF a = 0 THEN b
    ELSE IF b = 0 THEN a
    ELSE (IF a % 2 = 1 \/ b % 2 = 1 THEN 1 ELSE 0) + 2 * BitOr(a \div 2, b \div 2)

RECURSIVE Shr(_, _)
\* x >> i
Shr(x, i) == IF i = 0 \/ x = 0 THEN x ELSE Shr(x \div 2, i - 1)

RECURSIVE Smear(_, _)
\* for (int i = 1; i <= 32; i <<= 1) size |= size >> i;
Smear(size, i) ==
    IF i > 32 THEN size ELSE Smear(BitOr(size, Shr(size, i)), 2 * i)

\* The size of the table for n connections.
TableSize(n) == Smear(n - 1, 1) + 1

\* The std::hash<void*> values of the slots' addresses.
Hashers == [1 .. (nextSlot - 1) -> 0 .. MaxHash]

RECURSIVE ProbeFree(_, _, _)
\* while (hash_table[hash_idx] != nullptr) hash_idx = (hash_idx + 1) & (size - 1);
ProbeFree(table, idx, size) ==
    IF table[idx] # 0 THEN ProbeFree(table, (idx + 1) % size, size) ELSE idx

RECURSIVE MakeHashTable(_, _, _, _, _)
\* (make_hash_table(cons), ...): the table, or <<>> when a connection does not lock.
MakeHashTable(table, cons, i, hasher, size) ==
    IF i > Len(cons) THEN table
    ELSE IF ~Live(cons[i]) THEN <<>>
    ELSE LET idx == ProbeFree(table, hasher[cons[i]] % size, size)
         IN  MakeHashTable([table EXCEPT ![idx] = cons[i]], cons, i + 1, hasher, size)

\* Mutant: the lookup tests the bucket of the hash value only.
FoundNoProbe(table, p, idx, i, size) == table[idx] = p

RECURSIVE Found(_, _, _, _, _)
\* for (int i = 0; i < size && hash_table[hash_idx]; i++) ...
Found(table, p, idx, i, size) ==
    IF i >= size \/ table[idx] = 0 THEN FALSE
    ELSE IF table[idx] = p THEN TRUE
    ELSE Found(table, p, (idx + 1) % size, i + 1, size)

\* Mutant: the named connections are looked up in the snapshot one by one, so a
\* connection named twice is counted twice.
CheckCountsCons(current, cons, hasher) ==
    IF current.ver = 0 THEN "foreign"
    ELSE IF \E i \in 1 .. Len(cons) : ~Live(cons[i]) THEN "closed"
    ELSE IF \A i \in 1 .. Len(cons) : cons[i] \in Range(current.vec) THEN "ok"
    ELSE "foreign"

\* Mutant: Check without the lock of the handles: every named slot is looked
\* up in the snapshot.
CheckMembersOnly(current, cons, hasher) ==
    IF current.ver = 0 THEN "foreign"
    ELSE IF /\ \A i \in 1 .. Len(cons) : cons[i] \in Range(current.vec)
            /\ Cardinality(Range(cons)) = Len(cons)
           THEN "ok"
           ELSE "foreign"

\* "ok", or the error Check throws.
Check(current, cons, hasher) ==
    IF current.ver = 0 THEN "foreign"
    ELSE LET size == TableSize(Len(cons))
             table == MakeHashTable([k \in 0 .. size - 1 |-> 0], cons, 1, hasher, size)
         IN  IF table = <<>> THEN "closed"
             ELSE LET count == Cardinality({k \in 1 .. Len(current.vec) :
                                  Found(table, current.vec[k],
                                        hasher[current.vec[k]] % size, 0, size)})
                  IN  IF count = Len(cons) THEN "ok" ELSE "foreign"

(***************************************************************************)
(* emit(signal, capture, emitter, con...): emit_t::Capture.                *)
(***************************************************************************)
\* Mutant: Capture without its try block.
CatchesNothing(r) == FALSE

\* catch (std::runtime_error e): what Check throws is a std::runtime_error.
Catches(r) == r \in {"closed", "foreign"}

StartCapture(t) ==
    \E st \in Stores : \E cons \in ConsSeqs(st[2]) : \E a \in Payloads :
      \E hasher \in Hashers :
        /\ state[st[1]] = "alive"
        /\ Begin(t, [op |-> "capture", st |-> st, cons |-> cons, args |-> a])
        /\ DropSender(t)
        /\ LET r == Check(slots_[st], cons, hasher)
           IN  IF r = "ok"
                 THEN /\ Goto(t, "em_lock", [NoLoc EXCEPT !.i = 1])
                      /\ sender' = [sender EXCEPT ![t] = NewSender(Len(cons))]
                 ELSE IF Catches(r)
                        THEN /\ Finish(t, FALSE, 0)
                             /\ sender' = [sender EXCEPT ![t] =
                                              Emplace_error(NewSender(Len(cons)), r)]
                        ELSE /\ Raise(t)
                             /\ sender' = [sender EXCEPT ![t] = NoSender]
        /\ log' = [log EXCEPT ![t] = <<>>]
        /\ pre' = [pre EXCEPT ![t] = enabled_]
        /\ UNCHANGED <<slots_, enabled_, nextSlot, home, state, ghost>>

\* (cons.disable(), ...) and (cons.enable(), ...): one connection a step.
CaptureFlag(t, place, v, next) ==
    /\ pc[t] = place
    /\ LET i == loc[t].i
           h == call[t].cons[i]
       IN  /\ IF Live(h)
                THEN /\ enabled_' = [enabled_ EXCEPT ![h] = v]
                     /\ log' = [log EXCEPT ![t] = Append(@,
                                   [slot |-> h, via |-> IF v THEN "enable" ELSE "disable"])]
                ELSE UNCHANGED <<enabled_, log>>
           /\ IF i < Len(call[t].cons)
                THEN /\ loc' = [loc EXCEPT ![t].i = i + 1]
                     /\ UNCHANGED <<pc, ret>>
                ELSE next
    /\ UNCHANGED <<slots_, nextSlot, home, state, scope, call, sender, pre, calls,
                   ghost>>

\* Mutant: the captured connections are not disabled for the broadcast.
CaptureDisableSkipped(t) ==
    CaptureFlag(t, "cap_disable", TRUE,
                /\ pc' = [pc EXCEPT ![t] = "cap_load"]
                /\ loc' = [loc EXCEPT ![t] = NoLoc]
                /\ UNCHANGED ret)

CaptureDisable(t) ==
    CaptureFlag(t, "cap_disable", FALSE,
                /\ pc' = [pc EXCEPT ![t] = "cap_load"]
                /\ loc' = [loc EXCEPT ![t] = NoLoc]
                /\ UNCHANGED ret)

\* Broadcast(signal, emitter, scope) of the capture: the load of slots_.
CaptureLoad(t) ==
    /\ pc[t] = "cap_load"
    /\ IF Len(slots_[call[t].st].vec) = 0
         THEN /\ pc' = [pc EXCEPT ![t] = "cap_enable"]
              /\ loc' = [loc EXCEPT ![t] = [NoLoc EXCEPT !.i = 1]]
         ELSE /\ pc' = [pc EXCEPT ![t] = "bc_loop"]
              /\ loc' = [loc EXCEPT ![t] = [NoLoc EXCEPT !.snap = slots_[call[t].st],
                                                         !.i = 1]]
    /\ UNCHANGED <<slots_, enabled_, nextSlot, home, state, scope, call, sender,
                   ret, log, pre, calls, ghost>>

\* Mutant: enable() puts a slot that is missing from its store back into it.
CaptureEnableRegisters(t) ==
    /\ pc[t] = "cap_enable"
    /\ LET i == loc[t].i
           h == call[t].cons[i]
           st == call[t].st
       IN  /\ enabled_' = [enabled_ EXCEPT ![h] = TRUE]
           /\ log' = [log EXCEPT ![t] = Append(@, [slot |-> h, via |-> "enable"])]
           /\ IF h \in Range(slots_[st].vec)
                THEN UNCHANGED <<slots_, hist>>
                ELSE /\ slots_' = [slots_ EXCEPT ![st] = Publish(@, Append(@.vec, h))]
                     /\ hist' = [hist EXCEPT ![st] = Append(@, Append(slots_[st].vec, h))]
           /\ IF i < Len(call[t].cons)
                THEN /\ loc' = [loc EXCEPT ![t].i = i + 1]
                     /\ UNCHANGED <<pc, ret>>
                ELSE Finish(t, sender[t].error = "none", 0)
    /\ UNCHANGED <<nextSlot, home, state, scope, call, sender, pre, calls,
                   removals, waited, gate>>

\* Mutant: the captured connections are left disabled after the broadcast.
CaptureEnableSkipped(t) ==
    CaptureFlag(t, "cap_enable", FALSE, Finish(t, sender[t].error = "none", 0))

CaptureEnable(t) ==
    CaptureFlag(t, "cap_enable", TRUE, Finish(t, sender[t].error = "none", 0))

(***************************************************************************)
(* The caller awaits the sender of its last emission: connect moves the    *)
(* error, or else the value() of every future into a when_all, into the    *)
(* operation state; start completes with the error at once, or starts the  *)
(* when_all, which completes when every future has.                        *)
(***************************************************************************)
ConnectAndStart(t) ==
    /\ pc[t] = "idle"
    /\ call[t].op \in {"direct", "capture"}
    /\ ret[t].done /\ ~ret[t].raised
    /\ sender[t].awaited = "no"
    /\ sender' = [sender EXCEPT ![t].awaited =
                    IF sender[t].error # "none" THEN "set_error"
                    ELSE IF \E i \in 1 .. Len(sender[t].futures) :
                               sender[t].futures[i].st = "empty"
                           THEN "bad_optional_access"
                           ELSE "started"]
    /\ UNCHANGED <<slots_, enabled_, nextSlot, home, state, scope, pc, call, loc,
                   ret, log, pre, calls, ghost>>

(***************************************************************************)
(* ~emitter_impl: the emitter_unit bases go first (their slots_ let go of  *)
(* the snapshots), the virtual base emitter_scope goes last and waits in   *)
(* sync_wait(scope_.on_empty()).  No call that uses the emitter is running *)
(* when the destructor starts (the caller's contract).                     *)
(***************************************************************************)
Busy(u, e) ==
    /\ pc[u] # "idle"
    /\ \/ call[u].st[1] = e
       \/ \E i \in 1 .. Len(call[u].cons) : home[call[u].cons[i]][1] = e

\* Mutant: the stores outlive the emitter.
ReleasedNothing(e) == slots_

\* ~emitter_unit of every signal type of e: slots_ lets go of its snapshot.
Released(e) == [st \in Stores |-> IF st[1] = e THEN NullSnap ELSE slots_[st]]

StartDestroy(t) ==
    \E e \in Emitters :
        /\ state[e] = "alive"
        /\ \A u \in Threads : ~Busy(u, e)
        /\ Begin(t, [NoCall EXCEPT !.op = "destroy", !.st = <<e, 0>>])
        /\ DropSender(t)
        /\ slots_' = Released(e)
        /\ state' = [state EXCEPT ![e] = "draining"]
        /\ Goto(t, "dtor_wait", NoLoc)
        /\ sender' = [sender EXCEPT ![t] = NoSender]
        /\ log' = [log EXCEPT ![t] = <<>>]
        /\ UNCHANGED <<enabled_, nextSlot, home, pre, ghost>>

\* Mutant: the destructor does not wait.
ScopeEmptyAlways(e) == TRUE

\* on_empty() completes when no task of the scope is left.
ScopeEmpty(e) == scope[e] = EmptyBag

DestroyWait(t) ==
    /\ pc[t] = "dtor_wait"
    /\ ScopeEmpty(call[t].st[1])
    /\ state' = [state EXCEPT ![call[t].st[1]] = "destroyed"]
    /\ Finish(t, TRUE, 0)
    /\ UNCHANGED <<slots_, enabled_, nextSlot, home, scope, call, sender, log,
                   pre, calls, ghost>>

(***************************************************************************)
(* A spawned task completes (on whatever execution context its handler     *)
(* continues on): the scope lets go of it; a tracked task delivers its     *)
(* result to its position of the sender.                                   *)
(***************************************************************************)
TaskComplete ==
    \E e \in Emitters : \E x \in BagToSet(scope[e]) :
        /\ scope' = [scope EXCEPT ![e] = @ (-) SetToBag({x})]
        /\ sender' = IF x.fut = Detached THEN sender
                     ELSE [sender EXCEPT ![x.fut[1]].futures[x.fut[2]] =
                              [@ EXCEPT !.st = "done",
                                        !.value = Apply(Closure(x.slot), x.args),
                                        !.rank = 1 + Cardinality(
                                            {k \in 1 .. Len(sender[x.fut[1]].futures) :
                                               sender[x.fut[1]].futures[k].st = "done"})]]
        /\ waited' = [waited EXCEPT ![e] = @ \/ state[e] = "draining"]
        /\ UNCHANGED <<slots_, enabled_, nextSlot, home, state, pc, call, loc,
                       ret, log, pre, calls, hist, removals, gate>>

(***************************************************************************)
(* Specifications.                                                         *)
(***************************************************************************)
Step(t) ==
    \/ StartConnect(t) \/ RegisterCas(t)
    \/ StartDisconnect(t) \/ UnregisterLoad(t) \/ UnregisterCas(t)
    \/ SetEnabled(t)
    \/ StartBroadcast(t) \/ BroadcastStep(t)
    \/ StartDirect(t) \/ EmitLock(t) \/ EmitInvoke(t)
    \/ StartCapture(t) \/ CaptureDisable(t) \/ CaptureLoad(t) \/ CaptureEnable(t)
    \/ ConnectAndStart(t)
    \/ StartDestroy(t) \/ DestroyWait(t)

\* One caller: every call runs alone, the spawned tasks complete concurrently.
Next == Step(1) \/ TaskComplete

Spec == Init /\ [][Next]_vars

\* Two threads that connect, disconnect and broadcast concurrently.
Writer(t) ==
    \/ StartConnect(t) \/ RegisterCas(t)
    \/ StartDisconnect(t) \/ UnregisterLoad(t) \/ UnregisterCas(t)
    \/ StartBroadcast(t) \/ BroadcastStep(t)

NextConc == (\E t \in Threads : Writer(t)) \/ TaskComplete

SpecConc == Init /\ [][NextConc]_vars

\* The same, where a thread in a broadcast goes on to its next step sooner or
\* later, while a thread in connect or disconnect may stop for ever.
SpecReader ==
    Init /\ [][NextConc]_vars /\ \A t \in Threads : WF_vars(BroadcastStep(t))

\* The same, where thread 1 in connect or disconnect goes on to its next step
\* sooner or later (a compare-exchange of it that can succeed does not fail
\* for ever), while thread 2 may stop for ever wherever it is.
SpecWriter ==
    /\ Init /\ [][NextConc]_vars
    /\ WF_vars(RegisterCas(1))
    /\ WF_vars(UnregisterLoad(1))
    /\ WF_vars(UnregisterCas(1))

\* One caller that connects, enables, disables and broadcasts, and nothing else.
Gating(t) ==
    \/ StartConnect(t) \/ RegisterCas(t)
    \/ SetEnabled(t)
    \/ StartBroadcast(t) \/ BroadcastStep(t)

NextGate == Gating(1) \/ TaskComplete

SpecGate == Init /\ [][NextGate]_vars

\* Thread 1 connects, emits to its handles and awaits the senders, while
\* thread 2 enables and disables the handles.
Direct(t) ==
    \/ StartConnect(t) \/ RegisterCas(t)
    \/ StartDirect(t) \/ EmitLock(t) \/ EmitInvoke(t)
    \/ ConnectAndStart(t)

NextRace == Direct(1) \/ SetEnabled(2) \/ TaskComplete

SpecRace == Init /\ [][NextRace]_vars

\* The steps of a capture.
Capturing(t) ==
    \/ StartCapture(t) \/ EmitLock(t) \/ EmitInvoke(t)
    \/ CaptureDisable(t) \/ CaptureLoad(t) \/ BroadcastStep(t) \/ CaptureEnable(t)

\* Thread 1 connects, enables, disables and captures, while thread 2
\* broadcasts.
NextWindow ==
    \/ StartConnect(1) \/ RegisterCas(1) \/ SetEnabled(1) \/ Capturing(1)
    \/ StartBroadcast(2) \/ BroadcastStep(2)
    \/ TaskComplete

SpecWindow == Init /\ [][NextWindow]_vars

\* Thread 1 connects and captures, while thread 2 disconnects and broadcasts.
NextUnplug ==
    \/ StartConnect(1) \/ RegisterCas(1) \/ Capturing(1)
    \/ StartDisconnect(2) \/ UnregisterLoad(2) \/ UnregisterCas(2)
    \/ StartBroadcast(2) \/ BroadcastStep(2)
    \/ TaskComplete

SpecUnplug == Init /\ [][NextUnplug]_vars

\* Thread 1 connects, broadcasts and emits to its handles, while thread 2
\* disconnects, enables and disables them.
NextResolve ==
    \/ StartConnect(1) \/ RegisterCas(1)
    \/ StartBroadcast(1) \/ BroadcastStep(1)
    \/ StartDirect(1) \/ EmitLock(1) \/ EmitInvoke(1)
    \/ StartDisconnect(2) \/ UnregisterLoad(2) \/ UnregisterCas(2)
    \/ SetEnabled(2)
    \/ TaskComplete

SpecResolve == Init /\ [][NextResolve]_vars

\* The vectors a store has published when its content is vec, slot by slot.
Prefixes(vec) == [k \in 1 .. Len(vec) |-> SubSeq(vec, 1, k)]

\* The state two connect calls for the first signal type have left: slot 1 is
\* connected to the store sa, slot 2 to the store sb, and the caller is back
\* from the second connect.  calls counts the calls begun after these two.
InitConnected ==
    \E sa, sb \in {st \in Stores : st[2] = 1} :
        LET vecOf == [st \in Stores |->
                        (IF st = sa THEN <<1>> ELSE <<>>) \o
                        (IF st = sb THEN <<2>> ELSE <<>>)]
        IN  /\ slots_ = [st \in Stores |->
                            IF vecOf[st] = <<>> THEN NullSnap
                            ELSE [ver |-> Len(vecOf[st]), vec |-> vecOf[st]]]
            /\ hist = [st \in Stores |-> Prefixes(vecOf[st])]
            /\ home = [s \in SlotIds |->
                          IF s = 1 THEN sa ELSE IF s = 2 THEN sb ELSE NoStore]
            /\ call = [t \in Threads |->
                          IF t = 1 THEN [NoCall EXCEPT !.op = "connect", !.st = sb]
                          ELSE NoCall]
            /\ ret = [t \in Threads |->
                         IF t = 1
                           THEN [NoRet EXCEPT !.done = TRUE, !.ok = TRUE, !.h = 2,
                                              !.ver = Len(vecOf[sb]) - 1]
                           ELSE NoRet]
            /\ enabled_ = [s \in SlotIds |-> TRUE]
            /\ nextSlot = 3
            /\ state = [e \in Emitters |-> "alive"]
            /\ scope = [e \in Emitters |-> EmptyBag]
            /\ pc = [t \in Threads |-> "idle"]
            /\ loc = [t \in Threads |-> NoLoc]
            /\ sender = [t \in Threads |-> NoSender]
            /\ log = [t \in Threads |-> <<>>]
            /\ pre = [t \in Threads |-> [s \in SlotIds |-> TRUE]]
            /\ calls = 0
            /\ removals = [s \in SlotIds |-> 0]
            /\ waited = [e \in Emitters |-> FALSE]
            /\ gate = [s \in SlotIds |-> <<>>]

\* One caller that, two slots being connected, disconnects, enables, disables,
\* emits to the handles and awaits the senders.
NextFirst ==
    \/ StartDisconnect(1) \/ UnregisterLoad(1) \/ UnregisterCas(1)
    \/ SetEnabled(1)
    \/ StartDirect(1) \/ EmitLock(1) \/ EmitInvoke(1)
    \/ ConnectAndStart(1)
    \/ TaskComplete

SpecFirst == InitConnected /\ [][NextFirst]_vars

\* One caller that connects, disconnects, enables, disables and broadcasts,
\* while a second thread connects.
NextOrder ==
    \/ StartConnect(1) \/ RegisterCas(1)
    \/ StartDisconnect(1) \/ UnregisterLoad(1) \/ UnregisterCas(1)
    \/ SetEnabled(1)
    \/ StartBroadcast(1) \/ BroadcastStep(1)
    \/ StartConnect(2) \/ RegisterCas(2)
    \/ TaskComplete

SpecOrder == Init /\ [][NextOrder]_vars

\* One caller that connects, disconnects and captures.
Validating(t) ==
    \/ StartConnect(t) \/ RegisterCas(t)
    \/ StartDisconnect(t) \/ UnregisterLoad(t) \/ UnregisterCas(t)
    \/ Capturing(t)

NextCheck == Validating(1) \/ TaskComplete

SpecCheck == Init /\ [][NextCheck]_vars

\* Two threads that capture concurrently; thread 1 connects as well.  The
\* tasks spawned stay in their scopes: what a capture invokes does not depend
\* on when a task completes.
NextCapture ==
    \/ StartConnect(1) \/ RegisterCas(1)
    \/ \E t \in Threads : Capturing(t)

SpecCapture == Init /\ [][NextCapture]_vars

(***************************************************************************)
(* Properties.                                                             *)
(***************************************************************************)
\* Thread t has returned from a call of op (and has started no other since).
Returned(t, op) == ret[t].done /\ call[t].op = op

\* How often the call of t spawned a task for slot s on the path via.
Count(t, s, via) ==
    Cardinality({k \in 1 .. Len(log[t]) : log[t][k].slot = s /\ log[t][k].via = via})

\* The call of t spawned no task and stored no flag.
NoEffect(t) == log[t] = <<>> /\ enabled_ = pre[t]

Named(t) == Range(call[t].cons)
Members(t) == Range(slots_[call[t].st].vec)

\* C1: a Direct emission that fails validation (some named handle expired or
\* disabled) has spawned no task for any named handle.
C1_FailedDirectSpawnsNothing ==
    \A t \in Threads :
        Returned(t, "direct") /\ sender[t].error # "none" => log[t] = <<>>

\* C2: a Capture that fails with ConnectionDisabled has spawned no task, has
\* broadcast to no slot and has left every enabled flag as it was.
C2_DisabledCaptureHasNoEffect ==
    \A t \in Threads :
        Returned(t, "capture") /\ sender[t].error = "disabled" => NoEffect(t)

\* The case of C3: some named live handle is no member of the emitter's
\* snapshot, or a (live) slot is named twice.
ForeignOrDuplicate(t) ==
    \/ \E h \in Named(t) : Live(h) /\ h \notin Members(t)
    \/ \E i, j \in 1 .. Len(call[t].cons) :
          i # j /\ call[t].cons[i] = call[t].cons[j] /\ Live(call[t].cons[i])

C4_CaptureInvokesOnce ==
    \A t \in Threads :
        Returned(t, "capture") /\ ret[t].ok =>
            \A s \in SlotIds :
                /\ Count(t, s, "tracked") = IF s \in Named(t) THEN 1 ELSE 0
                /\ Count(t, s, "broadcast") =
                     IF s \notin Named(t) /\ s \in Members(t) /\ pre[t][s] THEN 1 ELSE 0

C4_Witness ==
    \E t \in Threads :
        /\ Returned(t, "capture") /\ ret[t].ok
        /\ \E s \in Named(t), o \in Members(t) \ Named(t) :
              Count(t, s, "tracked") = 1 /\ Count(t, o, "broadcast") = 1

\* C5: the value of the aggregate of a successful Direct or Capture is the
\* tuple of the named handlers' results on the payload, in the order the
\* handles were named, whatever the order the tasks complete in.
AllDone(t) == \A i \in 1 .. Len(sender[t].futures) : sender[t].futures[i].st = "done"

C5_AggregateInHandleOrder ==
    \A t \in Threads :
        /\ call[t].op \in {"direct", "capture"}
        /\ ret[t].done /\ ret[t].ok /\ AllDone(t)
        => /\ Len(sender[t].futures) = Len(call[t].cons)
           /\ \A i \in 1 .. Len(call[t].cons) :
                 sender[t].futures[i].value = Apply(Closure(call[t].cons[i]), call[t].args)

\* Two different handlers, the second of which completed first.
C5_Witness ==
    \E t \in Threads :
        /\ Returned(t, "direct") /\ ret[t].ok /\ AllDone(t)
        /\ Len(call[t].cons) = 2 /\ call[t].cons[1] # call[t].cons[2]
        /\ sender[t].futures[2].rank = 1 /\ sender[t].futures[1].rank = 2

\* The n-th vector published on store st (the null pointer before the first).
Published(st, n) == IF n = 0 THEN <<>> ELSE hist[st][n]

\* The slots the call of t has visited, in order (every slot is enabled here).
Visited(t) == [k \in 1 .. Len(log[t]) |-> log[t][k].slot]

\* C6: under any interleaving with connect and disconnect, the slots a
\* broadcast visits are exactly the content of the one snapshot it loaded,
\* which was published on the store as a whole: never a mix of two snapshots,
\* never a partly built one.
C6_BroadcastSeesOneSnapshot ==
    \A t \in Threads :
        /\ pc[t] = "bc_loop" =>
              /\ loc[t].snap.ver \in 1 .. Len(hist[call[t].st])
              /\ loc[t].snap.vec = Published(call[t].st, loc[t].snap.ver)
              /\ Visited(t) = SubSeq(loc[t].snap.vec, 1, loc[t].i - 1)
        /\ Returned(t, "broadcast") =>
              /\ ret[t].ver \in 0 .. Len(hist[call[t].st])
              /\ Visited(t) = Published(call[t].st, ret[t].ver)

\* A broadcast of two slots, during which the store was published anew.
C6_Witness ==
    \E t \in Threads :
        /\ Returned(t, "broadcast") /\ ret[t].lost
        /\ Len(Visited(t)) = 2
        /\ slots_[call[t].st].vec # Visited(t)

AllIdle == \A t \in Threads : pc[t] = "idle"

\* C7: once all connect and disconnect calls have returned, the snapshot of a
\* store holds, each once, exactly the slots whose connect completed and for
\* which no disconnect returned true.
C7_NoLostUpdate ==
    AllIdle =>
        \A st \in Stores :
            /\ Range(slots_[st].vec) = {s \in SlotIds : home[s] = st /\ removals[s] = 0}
            /\ Cardinality(Range(slots_[st].vec)) = Len(slots_[st].vec)

\* Two calls on one store have returned, one of which lost a compare-exchange
\* to the other.
C7_Witness ==
    /\ AllIdle
    /\ \E t, u \in Threads :
          /\ t # u /\ call[t].st = call[u].st
          /\ Returned(t, "connect") /\ ret[t].lost
          /\ ret[u].done /\ call[u].op \in {"connect", "disconnect"} /\ ret[u].ok
          /\ Len(slots_[call[t].st].vec) >= 1

\* Thread t has returned from disconnect(emitter, h) on the emitter of h.
Disconnected(t, h) ==
    Returned(t, "disconnect") /\ call[t].cons = <<h>> /\ call[t].st = home[h]

\* C8: of the disconnect calls for one slot on its emitter, exactly one returns
\* true: never two, and one has once two callers have returned, or once a caller
\* that lost the compare-exchange has returned false.
C8_OneDisconnectWins ==
    \A h \in SlotIds :
        /\ removals[h] <= 1
        /\ \A t, u \in Threads :
              t # u /\ Disconnected(t, h) /\ Disconnected(u, h)
                  => removals[h] = 1 /\ ~(ret[t].ok /\ ret[u].ok)
        /\ \A t \in Threads :
              Disconnected(t, h) /\ ret[t].lost /\ ~ret[t].ok => removals[h] = 1

\* Two concurrent disconnects of one slot: one won, the other lost the
\* compare-exchange and returned false.
C8_Witness ==
    \E h \in SlotIds : \E t, u \in Threads :
        /\ t # u /\ Disconnected(t, h) /\ Disconnected(u, h)
        /\ ret[t].ok /\ ~ret[u].ok /\ ret[u].lost

\* C9: the destruction of an emitter completes only when no task spawned into
\* its scope (by a broadcast, a direct emission or a capture, of any of its
\* signal types) is still running.
C9_DestructorDrainsScope ==
    \A e \in Emitters : state[e] = "destroyed" => scope[e] = EmptyBag

\* An emitter is destroyed whose destructor had to wait for a task.
C9_Witness == \E e \in Emitters : state[e] = "destroyed" /\ waited[e]

\* The emitter handle h was obtained from is destroyed.
Dead(h) == home[h] # NoStore /\ state[home[h][1]] = "destroyed"

\* C10: after an emitter is destroyed its handles are expired: enable() and
\* disable() return false, and a Direct emission through such handles spawns
\* nothing for them and fails, with ConnectionClosed when all its handles are
\* such handles.
C10_HandlesOfDestroyedEmitter ==
    /\ \A h \in SlotIds : Dead(h) => ~Live(h)
    /\ \A t \in Threads :
          /\ (Returned(t, "enable") \/ Returned(t, "disable")) /\ Dead(call[t].cons[1])
                => ~ret[t].ok
          /\ Returned(t, "direct") =>
                /\ \A h \in Named(t) :
                      Dead(h) => ~ret[t].ok /\ Count(t, h, "tracked") = 0
                /\ (\A h \in Named(t) : Dead(h))
                      => sender[t].error = "closed" /\ log[t] = <<>>

C10_Witness ==
    \E t \in Threads :
        /\ Returned(t, "direct") /\ Dead(call[t].cons[1])
        /\ sender[t].error = "closed" /\ log[t] = <<>>

\* The last enable() or disable() on slot s that returned true.
LastGate(s) == gate[s][Len(gate[s])]

\* C11: with only connect, enable, disable and broadcast in play, a broadcast
\* made when the last enable() / disable() that returned true on a slot of its
\* store was a disable() has not invoked the slot, and one made when it was an
\* enable() has invoked the slot exactly once.
C11_GateDecidesBroadcast ==
    \A t \in Threads :
        Returned(t, "broadcast") =>
            \A s \in SlotIds :
                home[s] = call[t].st /\ gate[s] # <<>> =>
                    Count(t, s, "broadcast") = IF LastGate(s) = "disable" THEN 0 ELSE 1

\* A broadcast after disable() and a later enable() on a slot of its store.
C11_Witness ==
    \E t \in Threads : \E s \in SlotIds :
        /\ Returned(t, "broadcast")
        /\ home[s] = call[t].st
        /\ gate[s] = <<"disable", "enable">>
        /\ Count(t, s, "broadcast") = 1

\* Thread t makes the step that is a whole call of enable() or disable().
GateCall(t) ==
    /\ calls' = calls + 1
    /\ pc[t] = "idle"
    /\ call'[t].op \in {"enable", "disable"}

\* The number of tasks running in the scope of every emitter.
Running == [e \in Emitters |-> BagCardinality(scope[e])]

\* C12: a handle whose slot is gone stays expired for ever (its slot is never
\* resolvable or registered again), and enable() and disable() on it return
\* false and change nothing: no store, no flag, no task; on a handle that
\* resolves they return true.
C12_ExpiredHandleStaysExpired ==
    [][/\ \A h \in 1 .. (nextSlot - 1) :
             ~Live(h) => (~Live(h))' /\ (\A st \in Stores : h \notin Range(slots_[st].vec))'
       /\ \A t \in Threads :
             GateCall(t) =>
                 LET h == call'[t].cons[1]
                 IN  /\ ret'[t].done /\ ret'[t].ok = Live(h)
                     /\ ~Live(h) =>
                           /\ UNCHANGED <<slots_, enabled_, home, state, nextSlot, gate>>
                           /\ Running' = Running]_vars

\* enable() or disable() has returned false on a handle that was disconnected.
C12_Witness ==
    \E t \in Threads :
        /\ Returned(t, "enable") \/ Returned(t, "disable")
        /\ ~ret[t].ok
        /\ removals[call[t].cons[1]] = 1

\* Thread t makes the step in which its call returns.
Returns(t) == ret'[t].done /\ (pc[t] # "idle" \/ calls' = calls + 1)

\* vec without the slot h, the others in their order.
Without(vec, h) == SelectSeq(vec, LAMBDA x : x # h)

\* C13: a disconnect that returns true publishes the snapshot of its store
\* without the slot of its handle, every other slot in its place, and leaves
\* the other stores alone; a broadcast made afterwards invokes no slot a
\* disconnect has removed and invokes every other enabled slot connected to
\* its store exactly once.
C13_DisconnectRemovesOneSlot ==
    /\ [](\A t \in Threads :
             Returned(t, "broadcast") =>
                 \A s \in SlotIds :
                     home[s] = call[t].st =>
                         Count(t, s, "broadcast") =
                             IF removals[s] = 0 /\ enabled_[s] THEN 1 ELSE 0)
    /\ [][\A t \in Threads :
             Returns(t) /\ call'[t].op = "disconnect" /\ ret'[t].ok =>
                 LET st == call'[t].st
                     h == call'[t].cons[1]
                 IN  /\ h \in Range(slots_[st].vec)
                     /\ slots_'[st].vec = Without(slots_[st].vec, h)
                     /\ Len(slots_'[st].vec) = Len(slots_[st].vec) - 1
                     /\ \A o \in Stores \ {st} : slots_'[o] = slots_[o]]_vars

\* A broadcast on a store of two slots, one of which was disconnected before:
\* the other one is invoked.
C13_Witness ==
    \E t \in Threads : \E s, o \in SlotIds :
        /\ Returned(t, "broadcast")
        /\ home[s] = call[t].st /\ home[o] = call[t].st
        /\ removals[s] = 1 /\ Count(t, s, "broadcast") = 0
        /\ removals[o] = 0 /\ Count(t, o, "broadcast") = 1

\* C14: disconnect(E, h) returns true exactly when the slot of h is in the
\* snapshot of the store of E; when it is not (h has expired, the slot was
\* removed before, the store was never written, or the slot is registered on
\* another emitter) it returns false and publishes nothing.  A disconnect
\* repeated after one that returned true returns false.
C14_FailedDisconnectPublishesNothing ==
    [][\A t \in Threads :
          Returns(t) /\ call'[t].op = "disconnect" =>
              LET st == call'[t].st
                  h == call'[t].cons[1]
              IN  /\ ~ret'[t].raised
                  /\ ret'[t].ok = (h \in Range(slots_[st].vec))
                  /\ ~Live(h) \/ removals[h] >= 1 \/ slots_[st].ver = 0 \/ home[h] # st
                        => ~ret'[t].ok
                  /\ ~ret'[t].ok => slots_' = slots_ /\ hist' = hist]_vars

\* disconnect has returned false for a live slot that is registered on another
\* emitter, whose store of that signal type holds a slot.
C14_Witness ==
    \E t \in Threads :
        /\ Returned(t, "disconnect") /\ ~ret[t].ok
        /\ Live(call[t].cons[1])
        /\ home[call[t].cons[1]][1] # call[t].st[1]
        /\ Len(slots_[call[t].st].vec) >= 1

\* The positions of the handles a direct emission of t does not accept: the
\* slot has expired, or it is disabled.
Rejected(t) ==
    {i \in 1 .. Len(call[t].cons) :
        ~Live(call[t].cons[i]) \/ ~enabled_[call[t].cons[i]]}

FirstRejected(t) == CHOOSE i \in Rejected(t) : \A j \in Rejected(t) : i <= j

\* C15: a direct emission whose handles are all live and enabled (after
\* enable(), too) succeeds; otherwise it fails, and the error tells the state
\* of the first handle it does not accept: ConnectionClosed for an expired
\* slot, ConnectionDisabled for a live slot that is disabled.
C15_DirectClassifiesByHandleState ==
    \A t \in Threads :
        Returned(t, "direct") =>
            IF Rejected(t) = {}
              THEN ret[t].ok /\ sender[t].error = "none"
              ELSE /\ ~ret[t].ok
                   /\ sender[t].error =
                        IF Live(call[t].cons[FirstRejected(t)]) THEN "disabled" ELSE "closed"

\* A direct emission has failed with ConnectionDisabled on a live handle.
C15_Witness ==
    \E t \in Threads :
        /\ Returned(t, "direct")
        /\ Rejected(t) # {}
        /\ Live(call[t].cons[FirstRejected(t)])
        /\ sender[t].error = "disabled"

\* The handles the capture of t names are pairwise distinct members of the
\* snapshot of its emitter's store.
NamedMembers(t) ==
    /\ Named(t) \subseteq Members(t)
    /\ Cardinality(Named(t)) = Len(call[t].cons)

\* C16: a Capture whose handles are distinct members of the emitter's store,
\* one of them disabled when the call is made, fails with ConnectionDisabled,
\* not with ConnectionForeignOrDuplicate.
C16_DisabledMemberCapture ==
    \A t \in Threads :
        /\ Returned(t, "capture")
        /\ NamedMembers(t)
        /\ \E h \in Named(t) : ~pre[t][h]
        => ~ret[t].raised /\ ~ret[t].ok /\ sender[t].error = "disabled"

\* A capture of one disabled member of a store has returned.
C16_Witness ==
    \E t \in Threads :
        /\ Returned(t, "capture")
        /\ NamedMembers(t)
        /\ \A h \in Named(t) : ~pre[t][h]
        /\ sender[t].error = "disabled"

\* The capture of t names a handle whose slot has expired.
NamesExpired(t) == \E h \in Named(t) : ~Live(h)

\* C17 as claimed: a Capture that names a handle whose slot no longer resolves
\* fails with ConnectionForeignOrDuplicate, whatever the state of the store.
C17_Original ==
    \A t \in Threads :
        Returned(t, "capture") /\ NamesExpired(t) => sender[t].error = "foreign"

\* C17 as amended: such a Capture fails without an effect; the error is
\* ConnectionForeignOrDuplicate when the store of the emitter was never
\* written, and ConnectionClosed when it was (emptied by disconnects or not).
C17_ExpiredHandleCapture ==
    \A t \in Threads :
        Returned(t, "capture") /\ NamesExpired(t) =>
            /\ ~ret[t].raised /\ ~ret[t].ok
            /\ NoEffect(t)
            /\ sender[t].error = IF slots_[call[t].st].ver = 0 THEN "foreign" ELSE "closed"

\* A capture of a disconnected handle on the store its disconnect has emptied.
C17_Witness ==
    \E t \in Threads :
        /\ Returned(t, "capture")
        /\ \E h \in Named(t) : ~Live(h) /\ removals[h] = 1 /\ home[h] = call[t].st
        /\ slots_[call[t].st].ver # 0 /\ slots_[call[t].st].vec = <<>>
        /\ sender[t].error = "closed"

\* Thread t has returned from a direct emission or a capture.
Emitted(t) == ret[t].done /\ call[t].op \in {"direct", "capture"}

\* Thread t makes the step that awaits the sender of its emission.
Awaits(t) == sender[t].awaited = "no" /\ sender'[t].awaited # "no"

\* C18: a Direct or Capture call never leaves by an exception; when its
\* validation has failed it returns a sender that holds the error, and awaiting
\* that sender completes with the error at once, and starts no handler.
C18_FailureDeliveredByAggregate ==
    /\ [](\A t \in Threads :
             Emitted(t) =>
                 /\ ~ret[t].raised
                 /\ Len(sender[t].futures) = Len(call[t].cons)
                 /\ sender[t].error # "none" =>
                       /\ ~ret[t].ok
                       /\ sender[t].awaited \in {"no", "set_error"})
    /\ [][\A t \in Threads :
             Awaits(t) /\ sender[t].error # "none" =>
                 /\ sender'[t].awaited = "set_error"
                 /\ sender'[t].error = sender[t].error
                 /\ UNCHANGED <<scope, log, enabled_, slots_>>]_vars

\* A capture that Check has turned down, awaited.
C18_Witness ==
    \E t \in Threads :
        /\ Returned(t, "capture")
        /\ sender[t].error = "foreign"
        /\ sender[t].awaited = "set_error"

\* How often the emission of t names the handle h.
Occurrences(t, h) ==
    Cardinality({i \in 1 .. Len(call[t].cons) : call[t].cons[i] = h})

\* C19: once a successful Direct or Capture call has returned, awaited or not,
\* a task has been spawned for every handle it names (once for every time it
\* names it) and every position of the sender holds its future; awaiting the
\* sender spawns nothing.
C19_SpawnedBeforeReturn ==
    /\ [](\A t \in Threads :
             Emitted(t) /\ ret[t].ok =>
                 /\ \A h \in Named(t) : Count(t, h, "tracked") = Occurrences(t, h)
                 /\ \A i \in 1 .. Len(call[t].cons) :
                       /\ sender[t].futures[i].st # "empty"
                       /\ sender[t].futures[i].slot = call[t].cons[i]
                 /\ sender[t].awaited \in {"no", "started"})
    /\ [][\A t \in Threads :
             Awaits(t) => UNCHANGED <<scope, log, enabled_, slots_>>]_vars

\* A successful emission to two handles, awaited while a task is running.
C19_Witness ==
    \E t \in Threads :
        /\ Emitted(t) /\ ret[t].ok
        /\ Len(call[t].cons) = 2
        /\ sender[t].awaited = "started"
        /\ \E i \in 1 .. 2 : sender[t].futures[i].st = "running"

\* Thread t makes a step of a broadcast.
Broadcasts(t) ==
    /\ call'[t].op = "broadcast"
    /\ pc[t] # "idle" \/ calls' = calls + 1

\* C20: a broadcast returns normally, with no error, whatever its store holds;
\* on a store never written, on an empty snapshot and on a snapshot of disabled
\* slots only it has spawned nothing; no step of it changes a flag or a store.
C20_BroadcastReportsNoError ==
    /\ [](\A t \in Threads :
             Returned(t, "broadcast") =>
                 /\ ~ret[t].raised /\ ret[t].ok
                 /\ sender[t] = NoSender
                 /\ (\A s \in Members(t) : ~enabled_[s]) => log[t] = <<>>)
    /\ [][\A t \in Threads : Broadcasts(t) => UNCHANGED <<enabled_, slots_>>]_vars

\* A broadcast on a store whose slots are all disabled has returned.
C20_Witness ==
    \E t \in Threads :
        /\ Returned(t, "broadcast") /\ ret[t].ok
        /\ Members(t) # {}
        /\ \A s \in Members(t) : ~enabled_[s]
        /\ log[t] = <<>>

\* Thread t makes a step of a call of one of ops.
StepOf(t, ops) ==
    /\ call'[t].op \in ops
    /\ pc[t] # "idle" \/ calls' = calls + 1

\* C21: the stores are apart.  A broadcast of signal type S on emitter E
\* invokes only slots that were connected for S on E, and spawns into the scope
\* of E only; a step of connect or disconnect for S on E leaves the store of
\* every other signal type of E and of every other emitter as it is.
C21_StoresAreIsolated ==
    /\ [](\A t \in Threads :
             call[t].op = "broadcast" =>
                 \A k \in 1 .. Len(log[t]) : home[log[t][k].slot] = call[t].st)
    /\ [][\A t \in Threads :
             /\ StepOf(t, {"connect", "disconnect"}) =>
                   \A o \in Stores \ {call'[t].st} :
                       slots_'[o] = slots_[o] /\ hist'[o] = hist[o]
             /\ StepOf(t, {"broadcast"}) =>
                   \A e \in Emitters \ {call'[t].st[1]} :
                       BagCardinality(scope'[e]) <= BagCardinality(scope[e])]_vars

\* A broadcast has invoked the slot of its store while the store of the other
\* signal type of its emitter holds a slot, too.
C21_Witness ==
    \E t \in Threads : \E o \in Stores :
        /\ Returned(t, "broadcast")
        /\ Len(log[t]) = 1
        /\ o # call[t].st /\ o[1] = call[t].st[1]
        /\ Len(slots_[o].vec) >= 1

\* The emitters whose slots the emission of t names.
NamedEmitters(t) == {home[h][1] : h \in Named(t)}

\* C22: every task, whatever emission spawned it, is in the scope of the
\* emitter its slot was connected on (a direct emission that names handles of
\* two emitters spawns into two scopes); the destructor of an emitter can
\* complete as soon as its own scope is empty, whatever runs in the scope of
\* another emitter, and does not complete before.
C22_TasksInScopeOfTheirEmitter ==
    /\ [](\A e \in Emitters : \A x \in BagToSet(scope[e]) : home[x.slot][1] = e)
    /\ [](\A t \in Threads :
             Returned(t, "direct") =>
                 \A i \in 1 .. Len(call[t].cons) :
                     sender[t].futures[i].st = "running" =>
                         \A e \in Emitters :
                             BagIn(Task(call[t].cons[i], call[t].args, <<t, i>>), scope[e])
                                 = (e = home[call[t].cons[i]][1]))
    /\ [](\A t \in Threads :
             pc[t] = "dtor_wait" =>
                 (ENABLED DestroyWait(t)) = (scope[call[t].st[1]] = EmptyBag))

\* A direct emission has named handles of two emitters, and a task of it is
\* running in the scope of either.
C22_Witness ==
    \E t \in Threads :
        /\ Returned(t, "direct") /\ ret[t].ok
        /\ Cardinality(NamedEmitters(t)) = 2
        /\ \A e \in NamedEmitters(t) : \E x \in BagToSet(scope[e]) : x.fut[1] = t

\* Thread t holds a snapshot it has loaded from the store of its call.
HoldsSnapshot(t) == pc[t] \in {"reg_cas", "unreg_cas", "bc_loop"}

\* C23: the content of a vector is what it was when it was published, as long
\* as the store or a call that has loaded it holds it; whatever changes a
\* store installs a vector built anew, and no published vector changes.
C23_SnapshotsAreImmutable ==
    /\ [](\A st \in Stores :
             /\ slots_[st].ver = Len(hist[st])
             /\ slots_[st].vec = Published(st, slots_[st].ver))
    /\ [](\A t \in Threads :
             HoldsSnapshot(t) =>
                 /\ loc[t].snap.ver \in 0 .. Len(hist[call[t].st])
                 /\ loc[t].snap.vec = Published(call[t].st, loc[t].snap.ver))
    /\ [][\A st \in Stores :
             /\ \A n \in 1 .. Len(hist[st]) :
                   Len(hist'[st]) >= n /\ hist'[st][n] = hist[st][n]
             /\ slots_'[st] # slots_[st] =>
                   /\ slots_'[st].ver = slots_[st].ver + 1
                   /\ hist'[st] = Append(hist[st], slots_'[st].vec)
             /\ \A t \in Threads :
                   HoldsSnapshot(t) /\ pc'[t] = pc[t]
                       /\ loc'[t].snap.ver = loc[t].snap.ver
                       => loc'[t].snap.vec = loc[t].snap.vec]_vars

\* A broadcast is half way through a snapshot of two slots that the store has
\* replaced since.
C23_Witness ==
    \E t \in Threads :
        /\ pc[t] = "bc_loop" /\ loc[t].i = 2
        /\ loc[t].snap.ver < slots_[call[t].st].ver
        /\ loc[t].snap.vec # slots_[call[t].st].vec

\* C24: the snapshot of a store of a living emitter changes only in the step
\* in which a connect or a disconnect on that store returns true; no step of
\* enable, disable, Broadcast, Direct or Capture, failed or not, changes a
\* store; enable() and disable() change the flag of the slot of their handle
\* and nothing else (no other flag, no store, no task).
C24_OnlyConnectAndDisconnectPublish ==
    [][/\ \A st \in Stores :
             state'[st[1]] = "alive" /\ slots_'[st] # slots_[st] =>
                 \E t \in Threads :
                     /\ StepOf(t, {"connect", "disconnect"})
                     /\ call'[t].st = st
                     /\ ret'[t].done /\ ret'[t].ok
       /\ \A t \in Threads :
             /\ StepOf(t, {"enable", "disable", "broadcast", "direct", "capture"})
                   => slots_' = slots_ /\ hist' = hist
             /\ GateCall(t) =>
                   /\ \A s \in SlotIds \ {call'[t].cons[1]} : enabled_'[s] = enabled_[s]
                   /\ UNCHANGED <<slots_, home, state, nextSlot>>
                   /\ Running' = Running]_vars

\* disable() has returned true for one of two enabled slots of a store.
C24_Witness ==
    \E t \in Threads : \E o \in SlotIds :
        /\ Returned(t, "disable") /\ ret[t].ok
        /\ ~enabled_[call[t].cons[1]]
        /\ o # call[t].cons[1] /\ home[o] = home[call[t].cons[1]]
        /\ Live(o) /\ enabled_[o]

\* Thread t itself makes a step of a call of one of ops.
OwnStep(t, ops) ==
    /\ call'[t].op \in ops
    /\ calls' = calls + 1 \/ pc'[t] # pc[t] \/ loc'[t] # loc[t]

\* The tasks running in the scope of e: their slots and payloads.
TasksOf(e) == BagOfAll(LAMBDA x : [slot |-> x.slot, args |-> x.args], scope[e])

\* C25: no step of a disconnect removes or changes a running task: the tasks
\* of the slot it removes stay in the scope of the emitter with their payload,
\* can complete, and keep the destructor of the emitter waiting until they
\* have.
C25_DisconnectKeepsRunningTasks ==
    /\ [][\A t \in Threads :
             OwnStep(t, {"disconnect"}) =>
                 \A e \in Emitters : TasksOf(e)' = TasksOf(e)]_vars
    /\ [](\A t \in Threads :
             /\ pc[t] = "dtor_wait"
             /\ \E x \in BagToSet(scope[call[t].st[1]]) : removals[x.slot] >= 1
             => ENABLED TaskComplete /\ ~ENABLED DestroyWait(t))
    /\ [](\A e \in Emitters : state[e] = "destroyed" =>
             ~\E x \in BagToSet(scope[e]) : removals[x.slot] >= 1)

\* The destructor of an emitter waits for a task of a slot that was
\* disconnected while the task was running.
C25_Witness ==
    \E t \in Threads :
        /\ pc[t] = "dtor_wait"
        /\ \E x \in BagToSet(scope[call[t].st[1]]) : removals[x.slot] = 1

\* The steps a broadcast of t has left.
StepsLeft(t) == IF pc[t] = "bc_loop" THEN Len(loc[t].snap.vec) - loc[t].i + 1 ELSE 0

Publishing(t) == pc[t] \in {"reg_cas", "unreg_load", "unreg_cas"}

\* C27: a connect or disconnect of a thread that keeps being scheduled returns,
\* whatever the other thread does in its own connect and disconnect calls
\* on the same store, and wherever it stops; a compare-exchange is lost only
\* to a publication of the other thread.
C27_WritersMakeProgress ==
    /\ Publishing(1) ~> (pc[1] = "idle")
    /\ [][loc'[1].lost /\ ~loc[1].lost /\ Publishing(1) =>
             slots_[call[1].st].ver # loc[1].snap.ver]_vars

\* Thread 1 has lost a compare-exchange and has returned all the same, while
\* thread 2 stands in its publish loop on the same store.
C27_Witness ==
    /\ ret[1].done /\ ret[1].ok /\ ret[1].lost
    /\ call[1].op \in {"connect", "disconnect"}
    /\ pc[2] \in {"reg_cas", "unreg_cas"}
    /\ call[2].st = call[1].st

\* C28: a Direct emission that returns with no validation error has spawned one
\* tracked task for every handle it names and every position of its sender
\* holds a future, also when another thread disables a named handle between
\* the emission's load of the flag and its spawn.
C28_DirectFillsEveryPosition ==
    \A t \in Threads :
        Returned(t, "direct") /\ sender[t].error = "none" =>
            /\ \A h \in Named(t) : Count(t, h, "tracked") = Occurrences(t, h)
            /\ \A i \in 1 .. Len(call[t].cons) : sender[t].futures[i].st # "empty"

\* The vector the returned broadcast of t ran over.
Loaded(t) == Published(call[t].st, ret[t].ver)

\* A call to disable() has named the handle s.
UserDisabled(s) == "disable" \in Range(gate[s])

\* C29: a broadcast invokes every slot of its snapshot that no call to
\* disable() has disabled, also when a capture that names the slot runs on
\* another thread: the disable and enable steps of the capture do not make the
\* broadcast skip the slot.
C29_BroadcastIgnoresCaptureWindow ==
    \A t \in Threads :
        Returned(t, "broadcast") =>
            \A s \in Range(Loaded(t)) :
                ~UserDisabled(s) => Count(t, s, "broadcast") = 1

\* The capture of t has passed Check.
Validated(t) == call[t].op = "capture" /\ sender[t].error \notin {"foreign", "closed"}

\* C30: of two captures on one emitter that name the same connection, which no
\* call to disable() has disabled, each passes validation (none fails with
\* ConnectionDisabled) and invokes the named slot once, on the tracked path,
\* and not in its broadcast, also when the two run concurrently.
C30_ConcurrentCapturesOfOneConnection ==
    \A t, u \in Threads :
        /\ t # u
        /\ Returned(t, "capture") /\ Validated(t) /\ Validated(u)
        /\ call[u].st = call[t].st
        => \A h \in Named(t) \cap Named(u) :
               ~UserDisabled(h) =>
                   /\ sender[t].error # "disabled"
                   /\ Count(t, h, "tracked") = 1
                   /\ Count(t, h, "broadcast") = 0

\* C31: when a successful Capture has returned, the slot of every connection
\* it names is enabled, and the flag of every other slot is what it was when
\* the call was made.
C31_CaptureRestoresFlags ==
    \A t \in Threads :
        Returned(t, "capture") /\ ret[t].ok =>
            \A s \in SlotIds :
                IF s \in Named(t) THEN enabled_[s] ELSE enabled_[s] = pre[t][s]

\* A successful capture has returned on a store with a disabled slot it does
\* not name.
C31_Witness ==
    \E t \in Threads :
        /\ Returned(t, "capture") /\ ret[t].ok
        /\ \E s \in Members(t) \ Named(t) : ~enabled_[s]
        /\ Count(t, call[t].cons[1], "disable") = 1
        /\ Count(t, call[t].cons[1], "enable") = 1

\* Thread t loads the vector of a broadcast, its own or that of a capture.
LoadsSnapshot(t) == pc[t] # "bc_loop" /\ pc'[t] = "bc_loop"

\* C32: when a connection a Capture names is disconnected while the capture
\* runs, the disable and enable steps of the capture do not bring the slot back:
\* a slot a disconnect has removed is in no store, the one disconnecting thread
\* is turned down only for a slot removed before, the flag steps of the capture
\* change no flag but that of the connection they name and no store, and a
\* broadcast that loads its vector after the removal does not hold the slot and
\* invokes no slot outside the vector it loaded.
C32_DisconnectDuringCapture ==
    /\ [](\A h \in SlotIds :
             /\ removals[h] >= 1 => \A st \in Stores : h \notin Range(slots_[st].vec)
             /\ \A u \in Threads :
                   Disconnected(u, h) /\ ~ret[u].ok => removals[h] >= 1)
    /\ [](\A t \in Threads :
             pc[t] = "bc_loop" =>
                 \A k \in 1 .. Len(log[t]) :
                     log[t][k].via = "broadcast" =>
                         log[t][k].slot \in Range(loc[t].snap.vec))
    /\ [][\A t \in Threads :
             /\ LoadsSnapshot(t) =>
                   \A h \in SlotIds :
                       removals[h] >= 1 => h \notin Range(loc'[t].snap.vec)
             /\ pc[t] \in {"cap_disable", "cap_enable"} /\ pc'[t] # pc[t] =>
                   /\ slots_' = slots_
                   /\ \A s \in SlotIds \ {call[t].cons[loc[t].i]} :
                          enabled_'[s] = enabled_[s]]_vars

\* A capture has disabled a connection and has returned without enabling it,
\* the handle having expired in between: thread 2 has disconnected it and has
\* then made a broadcast on its store.
C32_Witness ==
    \E h \in SlotIds :
        /\ Returned(1, "capture") /\ h \in Named(1)
        /\ Count(1, h, "disable") = 1 /\ Count(1, h, "enable") = 0
        /\ removals[h] = 1
        /\ Returned(2, "broadcast") /\ call[2].st = home[h]

\* The lists of at most MaxNamed handles of the signal type of st that resolve.
LiveLists(st) ==
    UNION {[1 .. n -> {h \in Handles(st[2]) : Live(h)}] : n \in 1 .. MaxNamed}

\* The hash values of the slots, over every residue of the largest table.
Buckets == [1 .. (nextSlot - 1) -> 0 .. MaxBucket]

RECURSIVE Probes(_, _, _, _)
\* The number of occupied cells the insertion loop passes from idx on before it
\* meets a free one; size when there is none.
Probes(table, idx, size, k) ==
    IF k >= size \/ table[idx] = 0 THEN k
    ELSE Probes(table, (idx + 1) % size, size, k + 1)

RECURSIVE MeetsFree(_, _, _, _, _)
\* Every insertion of make_hash_table, from the i-th handle of cons on, meets a
\* free cell before it has passed every cell of the table.
MeetsFree(table, cons, i, hasher, size) ==
    IF i > Len(cons) THEN TRUE
    ELSE LET idx == hasher[cons[i]] % size
         IN  /\ Probes(table, idx, size, 0) < size
             /\ MeetsFree([table EXCEPT ![ProbeFree(table, idx, size)] = cons[i]],
                          cons, i + 1, hasher, size)

\* The caller is back from a connect or a disconnect (or has made no call):
\* the stores and the slots alive are as that call left them.
StoresSettled ==
    /\ \A t \in Threads : pc[t] = "idle"
    /\ call[1].op \in {"none", "connect", "disconnect"}

\* C33: for a list of handles that resolve, whatever the hash values of the
\* slots, Check accepts the list exactly when its slots are pairwise distinct
\* and all in the snapshot of the store; the table has a cell for every handle,
\* and every insertion into it meets a free cell before it has passed every
\* cell (the lookup is bounded by its counter).  Stated for every list and
\* every hash function on the stores that connect and disconnect leave, and for
\* the capture that has run.
C33_CheckAcceptsDistinctMembers ==
    /\ StoresSettled =>
          \A st \in Stores : \A cons \in LiveLists(st) : \A hasher \in Buckets :
              LET n == Len(cons)
                  size == TableSize(n)
              IN  /\ (Check(slots_[st], cons, hasher) = "ok") =
                        (/\ Cardinality(Range(cons)) = n
                         /\ Range(cons) \subseteq Range(slots_[st].vec))
                  /\ n <= size /\ size < 2 * n
                  /\ MeetsFree([k \in 0 .. size - 1 |-> 0], cons, 1, hasher, size)
    /\ \A t \in Threads :
          Returned(t, "capture") /\ (\A h \in Named(t) : Live(h)) =>
              (sender[t].error # "foreign") = NamedMembers(t)

\* A store holds MaxNamed slots: with all hash values equal Check accepts the
\* slots of the store in reverse order (a table with a free cell) and the last
\* and the first of them (a full table), and turns down the list that names
\* the last slot twice.
C33_Witness ==
    \E st \in Stores :
        LET vec == slots_[st].vec
            hasher == [s \in 1 .. (nextSlot - 1) |-> 0]
            back == [i \in 1 .. MaxNamed |-> vec[MaxNamed + 1 - i]]
        IN  /\ StoresSettled /\ Len(vec) = MaxNamed
            /\ TableSize(MaxNamed) > MaxNamed /\ TableSize(2) = 2
            /\ Check(slots_[st], back, hasher) = "ok"
            /\ Check(slots_[st], <<vec[MaxNamed], vec[1]>>, hasher) = "ok"
            /\ Check(slots_[st], [back EXCEPT ![MaxNamed] = vec[MaxNamed]], hasher)
                  = "foreign"

\* The slot h is in the vector some store holds.
InStore(h) == \E st \in Stores : h \in Range(slots_[st].vec)

\* A call in progress holds a vector it has loaded with the slot h in it.
InLoaded(h) == \E t \in Threads : pc[t] # "idle" /\ h \in Range(loc[t].snap.vec)

\* The call of t in progress holds the slot h: in the vector a broadcast runs
\* over, in the vector a connect or disconnect has loaded or is building, or as
\* the locked handle of a disconnect or of an emission about to spawn.
HoldsSlot(t, h) ==
    \/ pc[t] = "bc_loop" /\ h \in Range(loc[t].snap.vec)
    \/ /\ pc[t] \in {"reg_cas", "unreg_cas"}
       /\ h \in Range(loc[t].snap.vec) \cup Range(loc[t].new)
    \/ pc[t] \in {"unreg_load", "unreg_cas", "em_invoke"} /\ loc[t].slot = h

\* The handles connect has returned.
Returned_handles == {h \in SlotIds : home[h] # NoStore}

C35_ConnectedSlotStartsEnabled ==
    /\ [][\A t \in Threads :
             Returns(t) /\ call'[t].op = "connect" =>
                 /\ ret'[t].ok /\ ret'[t].h \in Range(slots_'[call'[t].st].vec)
                 /\ enabled_'[ret'[t].h]
                 /\ gate'[ret'[t].h] = <<>>]_vars
    /\ [](\A t \in Threads :
             Returned(t, "broadcast") =>
                 \A s \in SlotIds :
                     home[s] = call[t].st /\ gate[s] = <<>> /\ removals[s] = 0 =>
                         Count(t, s, "broadcast") = 1)

\* A broadcast on a store of two slots: the first was disabled and is passed
\* over, the second was connected after that and is invoked, no enable() having
\* been called.
C35_Witness ==
    \E t \in Threads : \E s, o \in SlotIds :
        /\ Returned(t, "broadcast")
        /\ home[s] = call[t].st /\ home[o] = call[t].st /\ s < o
        /\ gate[s] = <<"disable">> /\ Count(t, s, "broadcast") = 0
        /\ gate[o] = <<>> /\ Count(t, o, "broadcast") = 1
        /\ Loaded(t) = <<s, o>>

\* The emission of t names some handle more than once.
NamesTwice(t) == Cardinality(Named(t)) < Len(call[t].cons)

\* C36: a Direct emission does not look for handles named twice: when every
\* handle it names resolves and is enabled it succeeds, has spawned a tracked
\* task for a handle as often as it names it, and its sender has one position
\* for every handle named, each with the future of its slot; a Capture that
\* names a handle (that resolves) twice fails with
\* ConnectionForeignOrDuplicate and has no effect.
C36_DirectAcceptsRepeatedHandle ==
    \A t \in Threads :
        /\ Returned(t, "direct") /\ (\A h \in Named(t) : Live(h) /\ pre[t][h]) =>
              /\ ret[t].ok /\ sender[t].error = "none"
              /\ \A h \in Named(t) : Count(t, h, "tracked") = Occurrences(t, h)
              /\ Len(log[t]) = Len(call[t].cons)
              /\ Len(sender[t].futures) = Len(call[t].cons)
              /\ \A i \in 1 .. Len(call[t].cons) :
                    /\ sender[t].futures[i].st # "empty"
                    /\ sender[t].futures[i].slot = call[t].cons[i]
        /\ Returned(t, "capture") /\ NamesTwice(t) /\ (\A h \in Named(t) : Live(h)) =>
              /\ ~ret[t].ok /\ sender[t].error = "foreign"
              /\ NoEffect(t)

\* A Direct emission that names one handle MaxCons times has returned: as many
\* tasks of the slot were spawned, and both have run to completion.
C36_Witness ==
    \E t \in Threads : \E h \in SlotIds :
        /\ Returned(t, "direct") /\ ret[t].ok
        /\ call[t].cons = [i \in 1 .. MaxCons |-> h]
        /\ Count(t, h, "tracked") = MaxCons
        /\ AllDone(t)

\* C37: when a Direct emission does not accept several of its handles, the
\* error of its sender is that of the first of them in argument order:
\* ConnectionClosed when that handle has expired, ConnectionDisabled when it
\* resolves and is disabled; once the error is set no later step of the
\* emission changes it.
C37_FirstFailureWins ==
    /\ [](\A t \in Threads :
             Returned(t, "direct") /\ Cardinality(Rejected(t)) >= 2 =>
                 /\ ~ret[t].ok
                 /\ sender[t].error =
                      IF Live(call[t].cons[FirstRejected(t)]) THEN "disabled" ELSE "closed")
    /\ [][\A t \in Threads :
             pc[t] \in {"em_lock", "em_invoke"} /\ sender[t].error # "none" =>
                 sender'[t].error = sender[t].error]_vars

\* A Direct emission to a disabled handle and then an expired one has failed
\* with ConnectionDisabled.
C37_Witness ==
    \E t \in Threads :
        /\ Returned(t, "direct") /\ Len(call[t].cons) = 2
        /\ Live(call[t].cons[1]) /\ ~enabled_[call[t].cons[1]]
        /\ ~Live(call[t].cons[2])
        /\ sender[t].error = "disabled"

\* The publication on store st that first held the slot s.
PubRank(st, s) ==
    CHOOSE n \in 1 .. Len(hist[st]) :
        /\ s \in Range(hist[st][n])
        /\ \A m \in 1 .. (n - 1) : s \notin Range(hist[st][m])

\* vec lists its slots in the order their connects were published on st.
InPublicationOrder(st, vec) ==
    \A i, j \in 1 .. Len(vec) :
        i < j => PubRank(st, vec[i]) < PubRank(st, vec[j])

\* C38: every snapshot of a store lists its slots in the order in which their
\* connects were published: a connect publishes the previous vector with its
\* slot at the end, a disconnect the previous vector without its slot and the
\* others in their order; a broadcast spawns the handlers of the enabled slots
\* of the snapshot it loaded, in the order of the snapshot.
C38_SnapshotKeepsPublicationOrder ==
    /\ \A st \in Stores :
          /\ slots_[st].vec = Published(st, Len(hist[st]))
          /\ \A n \in 1 .. Len(hist[st]) :
                LET prev == Published(st, n - 1)
                    cur == hist[st][n]
                IN  /\ InPublicationOrder(st, cur)
                    /\ \/ \E s \in SlotIds \ Range(prev) : cur = Append(prev, s)
                       \/ \E h \in Range(prev) : cur = Without(prev, h)
    /\ Returned(1, "broadcast") =>
          Visited(1) = SelectSeq(Loaded(1), LAMBDA x : enabled_[x])

\* A broadcast has spawned the handlers of a snapshot in which the slot
\* created later comes first, its connect having been published first.
C38_Witness ==
    /\ Returned(1, "broadcast")
    /\ Len(Visited(1)) >= 2
    /\ Visited(1)[1] > Visited(1)[2]
    /\ Visited(1) = slots_[call[1].st].vec

=============================================================================
